---------------------------- MODULE Spec2Model ----------------------------
(***************************************************************************)
(* A model of the two scripts of the repository:                           *)
(*   simple_rag_demo.py  class SimpleRAG (documents, embeddings, index;    *)
(*                       add_document, retrieve, query)                    *)
(*   test_api.py         load_environment, test_api_connection,            *)
(*                       test_rag_scenario, main                           *)
(* Python list positions are 0-based; sequences here are 1-based, so the   *)
(* element at Python position p of a list s is s[p + 1] (see At).          *)
(***************************************************************************)
EXTENDS Integers, Sequences, FiniteSets, TLC

VARIABLES
    documents,    \* SimpleRAG.documents: list of {'id', 'content'}
    embeddings,   \* SimpleRAG.embeddings: list of vectors
    index,        \* SimpleRAG.index: dict doc_id -> 0-based position
    op,           \* the last completed call on the instance
    top_k,        \* the top_k of the last retrieve (query passes 3)
    raised,       \* the exception the last call raised ("none": it returned)
    ranked,       \* retrieve's local `similarities` after the sort
    results,      \* retrieve's return value
    answer,       \* query's return value
    generated,    \* whether the last call invoked generate_answer
    vec1, vec2,   \* arguments of a direct _cosine_similarity call
    cosOut,       \* outcome of that call
    env,          \* os.environ after load_dotenv()
    pc,           \* position of test_api.main
    creds,        \* main's (api_key, base_url)
    output,       \* the messages printed so far
    clients,      \* Anthropic clients created, per test function
    requests,     \* messages.create requests sent, per test function
    outcome,      \* what the API call of each test function did
    returned,     \* return value of each test function
    propagated,   \* exception that left each test function
    exitStatus    \* the exit status of the script ("none" while it runs)

ragVars == <<documents, embeddings, index, op, top_k, raised, ranked,
             results, answer, generated>>
cosVars == <<vec1, vec2, cosOut>>
apiVars == <<env, pc, creds, output, clients, requests, outcome, returned,
             propagated, exitStatus>>
vars == <<ragVars, cosVars, apiVars>>

---------------------------------------------------------------------------
(* Bounds of the model *)

MaxDocs == 2        \* add_document is enabled while fewer documents are stored
MaxNegTopK == 1     \* retrieve is called with top_k from -MaxNegTopK on
MaxComp == 2        \* largest component of a vector passed to a direct
                    \* _cosine_similarity call

DefaultTopK == 3    \* retrieve's default top_k, and the top_k query passes

\* The dimension of the vectors.  np.random.rand(100) draws 100 components;
\* the model keeps two, which already give every ordering and every tie of
\* the scores of the stored documents.
Dim == 2

DocIds == {"doc1", "doc2"}
Contents == {"a", "b", "c"}
\* the (doc_id, content) pairs add_document is called with: two ids, one of
\* them with two contents
Corpus ==
    {[id |-> "doc1", content |-> "a"],
     [id |-> "doc2", content |-> "b"],
     [id |-> "doc1", content |-> "c"]}
Questions == {"q1", "q2"}
TopKs == (0 - MaxNegTopK) .. DefaultTopK

\* Two representative values of a component drawn by np.random.rand, a
\* number of [0, 1): zero and a positive one.  Cosine similarity does not
\* change when a vector is scaled, so the unit is immaterial.
Components == {0, 1}
AllVectors == [1 .. Dim -> Components]
ZeroVector == [d \in 1 .. Dim |-> 0]

---------------------------------------------------------------------------
(* Python helpers *)

At(s, p) == s[p + 1]

Min(a, b) == IF a < b THEN a ELSE b
Max(a, b) == IF a > b THEN a ELSE b

\* s[:k], Python's slice with a stop that may be negative
SliceTo(s, k) ==
    LET stop == IF k < 0 THEN Max(0, Len(s) + k) ELSE Min(k, Len(s))
    IN  SubSeq(s, 1, stop)

RECURSIVE SumTo(_, _)
SumTo(f, n) == IF n = 0 THEN 0 ELSE f[n] + SumTo(f, n - 1)

\* np.dot(vec1, vec2)
Dot(a, b) == SumTo([d \in 1 .. Dim |-> a[d] * b[d]], Dim)

\* np.linalg.norm(v) squared
Norm2(v) == Dot(v, v)


---------------------------------------------------------------------------
(* simple_rag_demo.py: similarity and ranking *)

\* A similarity is the real number num / sqrt(den2) with num, den2 >= 0
\* (all components are non-negative), or the float nan.  Scores are compared
\* exactly, by cross-multiplication of their squares.
NaN == [kind |-> "nan", num |-> 0, den2 |-> 0]
Score(num, den2) == [kind |-> "num", num |-> num, den2 |-> den2]

\* a < b on floats: false whenever one side is nan
ScoreLT(a, b) ==
    /\ a.kind = "num"
    /\ b.kind = "num"
    /\ a.num * a.num * b.den2 < b.num * b.num * a.den2

\* SimpleRAG._cosine_similarity: no check of the norms, the division is
\* always performed; numpy's float64 0.0 / 0.0 is nan (a RuntimeWarning,
\* not an exception).  A zero norm forces a zero dot product.
cosine_similarity(a, b) ==
    LET dot_product == Dot(a, b)
        norms2 == Norm2(a) * Norm2(b)
    IN  [raised  |-> "none",
         divided |-> TRUE,
         score   |-> IF norms2 = 0 THEN NaN ELSE Score(dot_product, norms2)]

\* SimpleRAG._generate_embedding: np.random.rand(100), whatever the text.
\* The set of vectors one call may return; the all-zero draw (100 doubles
\* equal to 0.0) is left out as a value the generator does not produce.
generate_embedding(text) == AllVectors \ {ZeroVector}

\* list.sort(key=lambda x: x[1], reverse=True): a stable sort, also with
\* reverse=True (equal keys keep their original relative order).  Modelled
\* as an insertion sort that puts each element after the elements whose
\* key is not smaller.
RECURSIVE InsertDesc(_, _)
InsertDesc(s, x) ==
    IF s = <<>> THEN <<x>>
    ELSE IF ScoreLT(Head(s)[2], x[2]) THEN <<x>> \o s
    ELSE <<Head(s)>> \o InsertDesc(Tail(s), x)

\* the same with an element put before the elements of equal key
RECURSIVE InsertDescFirst(_, _)
InsertDescFirst(s, x) ==
    IF s = <<>> THEN <<x>>
    ELSE IF ~ScoreLT(x[2], Head(s)[2]) THEN <<x>> \o s
    ELSE <<Head(s)>> \o InsertDescFirst(Tail(s), x)

RECURSIVE sort_unstable(_)
sort_unstable(s) ==
    IF s = <<>> THEN <<>>
    ELSE InsertDescFirst(sort_unstable(SubSeq(s, 1, Len(s) - 1)), s[Len(s)])

RECURSIVE SortDesc(_)
SortDesc(s) ==
    IF s = <<>> THEN <<>>
    ELSE InsertDesc(SortDesc(SubSeq(s, 1, Len(s) - 1)), s[Len(s)])

sort_by_similarity(s) == SortDesc(s)

\* SimpleRAG.retrieve on a non-empty store, once the query vector is drawn:
\* the sorted `similarities` and the returned list.
Retrieve(docs, embs, query_embedding, k) ==
    LET similarities ==
            [i \in 1 .. Len(embs) |->
                <<i - 1, cosine_similarity(query_embedding, embs[i]).score>>]
        sorted == sort_by_similarity(similarities)
        top == SliceTo(sorted, k)
    IN  [ranked  |-> sorted,
         results |-> [j \in 1 .. Len(top) |->
                        <<At(docs, top[j][1]).content, top[j][2]>>]]

\* SimpleRAG.generate_answer: a fixed template around the query; the
\* context only enters the unused prompt.
NoAnswer == [kind |-> "none", query |-> ""]
NoInfo == [kind |-> "no_info", query |-> ""]
generate_answer(query, context) == [kind |-> "generated", query |-> query]

---------------------------------------------------------------------------
(* simple_rag_demo.py: the operations of SimpleRAG *)

\* SimpleRAG.__init__
InitRAG ==
    /\ documents = <<>>
    /\ embeddings = <<>>
    /\ index = <<>>
    /\ op = "init"
    /\ top_k = 0
    /\ raised = "none"
    /\ ranked = <<>>
    /\ results = <<>>
    /\ answer = NoAnswer
    /\ generated = FALSE

\* add_document with the position stored in the index off by one
add_document_len(doc_id, content) ==
    /\ Len(documents) < MaxDocs
    /\ \E embedding \in generate_embedding(content) :
          /\ documents' = Append(documents, [id |-> doc_id, content |-> content])
          /\ embeddings' = Append(embeddings, embedding)
          /\ index' = [k \in DOMAIN index \cup {doc_id} |->
                         IF k = doc_id THEN Len(documents') ELSE index[k]]
    /\ op' = "add_document"
    /\ raised' = "none"
    /\ top_k' = 0
    /\ ranked' = <<>>
    /\ results' = <<>>
    /\ answer' = NoAnswer
    /\ generated' = FALSE

\* add_document that puts the new document and vector in front
add_document_front(doc_id, content) ==
    /\ Len(documents) < MaxDocs
    /\ \E embedding \in generate_embedding(content) :
          /\ documents' = <<[id |-> doc_id, content |-> content]>> \o documents
          /\ embeddings' = <<embedding>> \o embeddings
          /\ index' = [k \in DOMAIN index \cup {doc_id} |->
                         IF k = doc_id THEN 0 ELSE index[k]]
    /\ op' = "add_document"
    /\ raised' = "none"
    /\ top_k' = 0
    /\ ranked' = <<>>
    /\ results' = <<>>
    /\ answer' = NoAnswer
    /\ generated' = FALSE

\* SimpleRAG.add_document: no look-up of doc_id before the appends
add_document(doc_id, content) ==
    /\ Len(documents) < MaxDocs
    /\ \E embedding \in generate_embedding(content) :
          /\ documents' = Append(documents, [id |-> doc_id, content |-> content])
          /\ embeddings' = Append(embeddings, embedding)
          /\ index' = [k \in DOMAIN index \cup {doc_id} |->
                         IF k = doc_id THEN Len(documents') - 1 ELSE index[k]]
    /\ op' = "add_document"
    /\ raised' = "none"
    /\ top_k' = 0
    /\ ranked' = <<>>
    /\ results' = <<>>
    /\ answer' = NoAnswer
    /\ generated' = FALSE

\* SimpleRAG.retrieve
retrieve(query, k) ==
    /\ IF documents = <<>>
       THEN /\ ranked' = <<>>
            /\ results' = <<>>
       ELSE \E query_embedding \in generate_embedding(query) :
               LET r == Retrieve(documents, embeddings, query_embedding, k)
               IN  /\ ranked' = r.ranked
                   /\ results' = r.results
    /\ op' = "retrieve"
    /\ top_k' = k
    /\ raised' = "none"
    /\ answer' = NoAnswer
    /\ generated' = FALSE
    /\ UNCHANGED <<documents, embeddings, index>>

\* query without the test of the retrieved list
query_always_generates(question) ==
    /\ IF documents = <<>>
       THEN /\ ranked' = <<>>
            /\ results' = <<>>
       ELSE \E query_embedding \in generate_embedding(question) :
               LET r == Retrieve(documents, embeddings, query_embedding,
                                 DefaultTopK)
               IN  /\ ranked' = r.ranked
                   /\ results' = r.results
    /\ answer' = generate_answer(question,
                                 [j \in 1 .. Len(results') |-> results'[j][1]])
    /\ generated' = TRUE
    /\ op' = "query"
    /\ top_k' = DefaultTopK
    /\ raised' = "none"
    /\ UNCHANGED <<documents, embeddings, index>>

\* SimpleRAG.query: retrieve(question, top_k=3), then the fixed response
\* when nothing was retrieved, else generate_answer on the contents
query(question) ==
    /\ IF documents = <<>>
       THEN /\ ranked' = <<>>
            /\ results' = <<>>
       ELSE \E query_embedding \in generate_embedding(question) :
               LET r == Retrieve(documents, embeddings, query_embedding,
                                 DefaultTopK)
               IN  /\ ranked' = r.ranked
                   /\ results' = r.results
    /\ IF results' = <<>>
       THEN /\ answer' = NoInfo
            /\ generated' = FALSE
       ELSE /\ answer' = generate_answer(question,
                            [j \in 1 .. Len(results') |-> results'[j][1]])
            /\ generated' = TRUE
    /\ op' = "query"
    /\ top_k' = DefaultTopK
    /\ raised' = "none"
    /\ UNCHANGED <<documents, embeddings, index>>


---------------------------------------------------------------------------
(* simple_rag_demo.py: _cosine_similarity called on arbitrary vectors *)

CosVectors == [1 .. Dim -> 0 .. MaxComp]
NoCall == [called |-> FALSE, raised |-> "none", divided |-> FALSE, score |-> NaN]

IdleCos ==
    /\ vec1 = ZeroVector
    /\ vec2 = ZeroVector
    /\ cosOut = NoCall

InitCos ==
    /\ vec1 \in CosVectors
    /\ vec2 \in CosVectors
    /\ cosOut = NoCall

\* one call _cosine_similarity(vec1, vec2)
CallCosine ==
    /\ ~cosOut.called
    /\ LET r == cosine_similarity(vec1, vec2)
       IN  cosOut' = [called |-> TRUE, raised |-> r.raised,
                      divided |-> r.divided, score |-> r.score]
    /\ UNCHANGED <<vec1, vec2>>

---------------------------------------------------------------------------
(* test_api.py *)

None == "<None>"                       \* os.getenv of a variable not set
ApiKeys == {None, "", "sk-ant-key-1", "sk-ant-key-2"}
BaseUrls == {None, "", "https://api-1", "https://api-2"}

\* Python's `not v` for v a string or None
Falsy(v) == v = None \/ v = ""

TestFunctions == {"test_api_connection", "test_rag_scenario"}

\* What the body of a test function's try block can do:
\*   client_error          Anthropic(...) raises
\*   ok                    the request succeeds and the response is printed
\*   bad_response          the request succeeds, reading the response raises
\*   the anthropic errors  client.messages.create raises one of them
\*   Exception             client.messages.create raises something else
GeneratorErrors ==
    {"AuthenticationError", "APIConnectionError", "RateLimitError", "APIError"}
Outcomes ==
    {"client_error", "ok", "bad_response", "Exception"} \cup GeneratorErrors

\* load_environment that tests the two values against None only
load_environment_none_only(e) ==
    IF e.ANTHROPIC_API_KEY = None
    THEN [ret |-> <<None, None>>, printed |-> <<"missing ANTHROPIC_API_KEY">>]
    ELSE IF e.ANTHROPIC_BASE_URL = None
    THEN [ret |-> <<None, None>>, printed |-> <<"missing ANTHROPIC_BASE_URL">>]
    ELSE [ret |-> <<e.ANTHROPIC_API_KEY, e.ANTHROPIC_BASE_URL>>,
          printed |-> <<"API Key", "Base URL">>]

\* load_environment: (api_key, base_url), or (None, None) with a message
load_environment(e) ==
    IF Falsy(e.ANTHROPIC_API_KEY)
    THEN [ret |-> <<None, None>>, printed |-> <<"missing ANTHROPIC_API_KEY">>]
    ELSE IF Falsy(e.ANTHROPIC_BASE_URL)
    THEN [ret |-> <<None, None>>, printed |-> <<"missing ANTHROPIC_BASE_URL">>]
    ELSE [ret |-> <<e.ANTHROPIC_API_KEY, e.ANTHROPIC_BASE_URL>>,
          printed |-> <<"API Key", "Base URL">>]

\* the message of the except clause that catches the outcome o in
\* test_api_connection
ConnectionMessage(o) ==
    CASE o = "ok"                  -> "API call succeeded"
      [] o = "AuthenticationError" -> "authentication error"
      [] o = "APIConnectionError"  -> "connection error"
      [] o = "RateLimitError"      -> "rate limit error"
      [] o = "APIError"            -> "API error"
      [] OTHER                     -> "unknown error"

\* test_api_connection that sends the request again after an error
test_api_connection_retry(api_key, base_url, o) ==
    [created    |-> IF o = "client_error" THEN 0 ELSE 1,
     sent       |-> IF o = "client_error" THEN 0
                    ELSE IF o \in GeneratorErrors THEN 2 ELSE 1,
     ret        |-> IF o = "ok" THEN "True" ELSE "False",
     printed    |-> <<"testing API connection", ConnectionMessage(o)>>,
     propagated |-> "none"]

\* test_api_connection: one client, one request, every exception caught by
\* an except clause that prints and returns False
test_api_connection(api_key, base_url, o) ==
    [created    |-> IF o = "client_error" THEN 0 ELSE 1,
     sent       |-> IF o = "client_error" THEN 0 ELSE 1,
     ret        |-> IF o = "ok" THEN "True" ELSE "False",
     printed    |-> <<"testing API connection", ConnectionMessage(o)>>,
     propagated |-> "none"]

\* test_rag_scenario: the same with a single `except Exception`
test_rag_scenario(api_key, base_url, o) ==
    [created    |-> IF o = "client_error" THEN 0 ELSE 1,
     sent       |-> IF o = "client_error" THEN 0 ELSE 1,
     ret        |-> IF o = "ok" THEN "True" ELSE "False",
     printed    |-> <<"testing RAG scenario",
                      IF o = "ok" THEN "RAG scenario succeeded"
                                  ELSE "RAG scenario failed">>,
     propagated |-> "none"]

IdleApi ==
    /\ pc = "start"
    /\ creds = <<None, None>>
    /\ output = <<>>
    /\ clients = [f \in TestFunctions |-> 0]
    /\ requests = [f \in TestFunctions |-> 0]
    /\ outcome = [f \in TestFunctions |-> "not_called"]
    /\ returned = [f \in TestFunctions |-> "not_called"]
    /\ propagated = [f \in TestFunctions |-> "none"]
    /\ exitStatus = "none"

InitApi ==
    /\ env \in [ANTHROPIC_API_KEY : ApiKeys, ANTHROPIC_BASE_URL : BaseUrls]
    /\ IdleApi

\* the record of one invocation of the test function f
Invoked(f, o, r) ==
    /\ clients' = [clients EXCEPT ![f] = r.created]
    /\ requests' = [requests EXCEPT ![f] = r.sent]
    /\ outcome' = [outcome EXCEPT ![f] = o]
    /\ returned' = [returned EXCEPT ![f] = r.ret]
    /\ propagated' = [propagated EXCEPT ![f] = r.propagated]

\* main, lines 129-135: the banner, load_environment, sys.exit(1) when
\* either value is missing
MainLoadEnvironment ==
    /\ pc = "start"
    /\ LET r == load_environment(env)
       IN  /\ creds' = r.ret
           /\ output' = output \o <<"start">> \o r.printed
           /\ IF Falsy(r.ret[1]) \/ Falsy(r.ret[2])
              THEN /\ pc' = "exited"
                   /\ exitStatus' = "1"
              ELSE /\ pc' = "basic"
                   /\ exitStatus' = exitStatus
    /\ UNCHANGED <<env, clients, requests, outcome, returned, propagated>>

\* main, lines 138-150 when the basic test fails: sys.exit(1); when it
\* succeeds main goes on to the RAG scenario
MainBasicTest ==
    /\ pc = "basic"
    /\ \E o \in Outcomes :
          LET r == test_api_connection(creds[1], creds[2], o)
          IN  /\ Invoked("test_api_connection", o, r)
              /\ IF r.ret = "True"
                 THEN /\ pc' = "rag"
                      /\ output' = output \o r.printed
                      /\ exitStatus' = exitStatus
                 ELSE /\ pc' = "exited"
                      /\ output' = output \o r.printed \o <<"API test failed">>
                      /\ exitStatus' = "1"
    /\ UNCHANGED <<env, creds>>

\* the RAG step of main with sys.exit(1) when the scenario fails
MainRagTestExits ==
    /\ pc = "rag"
    /\ \E o \in Outcomes :
          LET r == test_rag_scenario(creds[1], creds[2], o)
          IN  /\ Invoked("test_rag_scenario", o, r)
              /\ output' = output \o r.printed
              /\ IF r.ret = "True"
                 THEN /\ pc' = "finishing"
                      /\ exitStatus' = exitStatus
                 ELSE /\ pc' = "exited"
                      /\ exitStatus' = "1"
    /\ UNCHANGED <<env, creds>>

\* main, lines 140-147: the RAG scenario and the message on its result
MainRagTest ==
    /\ pc = "rag"
    /\ \E o \in Outcomes :
          LET r == test_rag_scenario(creds[1], creds[2], o)
          IN  /\ Invoked("test_rag_scenario", o, r)
              /\ output' = output \o r.printed \o
                     <<IF r.ret = "True" THEN "all tests passed"
                                         ELSE "RAG scenario test failed">>
    /\ pc' = "finishing"
    /\ UNCHANGED <<env, creds, exitStatus>>

\* main, lines 152-153, and the normal end of the script
MainFinish ==
    /\ pc = "finishing"
    /\ output' = output \o <<"done">>
    /\ pc' = "done"
    /\ exitStatus' = "0"
    /\ UNCHANGED <<env, creds, clients, requests, outcome, returned, propagated>>

---------------------------------------------------------------------------
(* Specifications *)

\* a SimpleRAG instance under any sequence of calls
Init ==
    /\ InitRAG
    /\ IdleCos
    /\ env = [ANTHROPIC_API_KEY |-> None, ANTHROPIC_BASE_URL |-> None]
    /\ IdleApi

Next ==
    \/ \E d \in Corpus :
          add_document(d.id, d.content) /\ UNCHANGED <<cosVars, apiVars>>
    \* the text of the query reaches nothing but _generate_embedding, which
    \* ignores it: one text stands for all
    \/ \E k \in TopKs :
          retrieve("q1", k) /\ UNCHANGED <<cosVars, apiVars>>
    \/ \E q \in Questions :
          query(q) /\ UNCHANGED <<cosVars, apiVars>>

Spec == Init /\ [][Next]_vars

\* _cosine_similarity on any pair of vectors
InitC ==
    /\ InitRAG
    /\ InitCos
    /\ env = [ANTHROPIC_API_KEY |-> None, ANTHROPIC_BASE_URL |-> None]
    /\ IdleApi

NextC == CallCosine /\ UNCHANGED <<ragVars, apiVars>>

SpecCos == InitC /\ [][NextC]_vars

\* one run of test_api.py under any environment
InitA ==
    /\ InitRAG
    /\ IdleCos
    /\ InitApi

NextA ==
    \/ MainLoadEnvironment /\ UNCHANGED <<ragVars, cosVars>>
    \/ MainBasicTest /\ UNCHANGED <<ragVars, cosVars>>
    \/ MainRagTest /\ UNCHANGED <<ragVars, cosVars>>
    \/ MainFinish /\ UNCHANGED <<ragVars, cosVars>>

SpecApi == InitA /\ [][NextA]_vars

---------------------------------------------------------------------------
(* Properties of SimpleRAG, under Spec *)

Range(s) == {s[j] : j \in 1 .. Len(s)}
SameScore(a, b) == ~ScoreLT(a, b) /\ ~ScoreLT(b, a)

\* C1: after any sequence of add_document, retrieve and query calls the two
\* lists have the same length, and every id of the index maps to a position
\* p with 0 <= p < len(documents), valid in both lists.
C1_Paired ==
    /\ Len(documents) = Len(embeddings)
    /\ \A id \in DOMAIN index :
          /\ 0 <= index[id]
          /\ index[id] < Len(documents)
          /\ index[id] < Len(embeddings)

\* a query answered on a store that holds two documents under one id
C1_Witness ==
    /\ op = "query"
    /\ Len(documents) = 2
    /\ DOMAIN index = {"doc1"}
    /\ index["doc1"] = 1

\* C2: add_document with an id already in the index fails with a
\* duplicate-id error and leaves documents, embeddings and index as they
\* were.
C2_DuplicateRejected ==
    [][\A doc_id \in DocIds, content \in Contents :
          (doc_id \in DOMAIN index /\ add_document(doc_id, content))
             => /\ raised' = "DuplicateIdError"
                /\ UNCHANGED <<documents, embeddings, index>>]_vars

\* C3: on a store with at least one document, retrieve returns at most
\* top_k results and at most as many as there are documents, for every
\* integer top_k.
C3_AtMostTopK ==
    (op = "retrieve" /\ documents # <<>>)
       => /\ Len(results) <= top_k
          /\ Len(results) <= Len(documents)

\* C4: the results of retrieve are in non-increasing order of score, two
\* documents of equal score in the order of their insertion; the returned
\* list is the head of that ranking of all the documents.
C4_RankedStable ==
    op \in {"retrieve", "query"}
       => /\ Len(ranked) = Len(documents)
          /\ {ranked[j][1] : j \in 1 .. Len(ranked)} = 0 .. Len(documents) - 1
          /\ \A i, j \in 1 .. Len(ranked) :
                i < j => /\ ~ScoreLT(ranked[i][2], ranked[j][2])
                         /\ SameScore(ranked[i][2], ranked[j][2])
                               => ranked[i][1] < ranked[j][1]
          /\ Len(results) <= Len(ranked)
          /\ \A j \in 1 .. Len(results) :
                results[j] = <<At(documents, ranked[j][1]).content, ranked[j][2]>>

\* two documents with different vectors and the same score, both returned
C4_Witness ==
    /\ op = "retrieve"
    /\ Len(results) = 2
    /\ embeddings[1] # embeddings[2]
    /\ SameScore(results[1][2], results[2][2])

\* C5: with no document added, query returns the fixed "no information"
\* response for every question, and generate_answer is not invoked during
\* the call.
C5_EmptyQuery ==
    (op = "query" /\ documents = <<>>)
       => /\ answer = NoInfo
          /\ ~generated

C5_Witness ==
    /\ op = "query"
    /\ documents = <<>>
    /\ answer = NoInfo
    /\ results = <<>>

\* C8: the stored content only grows: retrieve and query leave documents,
\* embeddings and index unchanged; add_document only appends, every stored
\* document and vector keeps its position and value, and the number of
\* documents never decreases.
C8_GrowsOnly ==
    [][/\ Len(documents') >= Len(documents)
       /\ SubSeq(documents', 1, Len(documents)) = documents
       /\ SubSeq(embeddings', 1, Len(embeddings)) = embeddings
       /\ op' \in {"retrieve", "query"}
             => UNCHANGED <<documents, embeddings, index>>
       /\ op' = "add_document"
             => /\ Len(documents') = Len(documents) + 1
                /\ Len(embeddings') = Len(embeddings) + 1]_vars

\* a retrieve on a store that two add_document calls have filled
C8_Witness ==
    /\ op = "retrieve"
    /\ top_k = 1
    /\ Len(documents) = 2
    /\ documents[1] # documents[2]
    /\ Len(results) = 1

---------------------------------------------------------------------------
(* Properties of _cosine_similarity, under SpecCos *)

\* C6: when the query vector or the stored vector has zero norm, the
\* similarity computation fails with a DegenerateVectorError; it does not
\* divide by the zero product of the norms and yields no score.
C6_DegenerateRejected ==
    (cosOut.called /\ (Norm2(vec1) = 0 \/ Norm2(vec2) = 0))
       => /\ cosOut.raised = "DegenerateVectorError"
          /\ ~cosOut.divided

---------------------------------------------------------------------------
(* Properties of test_api.py, under SpecApi *)

Missing == Falsy(env.ANTHROPIC_API_KEY) \/ Falsy(env.ANTHROPIC_BASE_URL)

\* C7: if the API key or the base URL is absent (unset or empty),
\* load_environment reports it and main ends with exit status 1 before any
\* client is created or any request is sent.
C7_MissingCredentialsExit ==
    (Missing /\ pc # "start")
       => /\ pc = "exited"
          /\ exitStatus = "1"
          /\ IF Falsy(env.ANTHROPIC_API_KEY)
             THEN "missing ANTHROPIC_API_KEY" \in Range(output)
             ELSE "missing ANTHROPIC_BASE_URL" \in Range(output)
          /\ \A f \in TestFunctions :
                /\ clients[f] = 0
                /\ requests[f] = 0
                /\ outcome[f] = "not_called"

\* the key is set, the base URL is empty, and main has exited
C7_Witness ==
    /\ pc = "exited"
    /\ ~Falsy(env.ANTHROPIC_API_KEY)
    /\ env.ANTHROPIC_BASE_URL = ""
    /\ exitStatus = "1"

\* C9, as claimed: a failure of the generator call leaves the test function
\* as the same error, and at most one request is sent per invocation.
C9_SurfacedUnmodified ==
    \A f \in TestFunctions :
       /\ requests[f] <= 1
       /\ outcome[f] \in GeneratorErrors => propagated[f] = outcome[f]

\* C9, amended: a failure of the generator call is caught inside the test
\* function, which prints a message and returns False (no exception leaves
\* it); test_api_connection's message names the error kind,
\* test_rag_scenario's is the same for every kind; the request is not sent
\* again: exactly one request after a generator failure, at most one per
\* invocation.
C9_CaughtNotRetried ==
    /\ \A f \in TestFunctions :
          /\ requests[f] <= 1
          /\ clients[f] <= 1
          /\ propagated[f] = "none"
          /\ outcome[f] \in GeneratorErrors
                => /\ returned[f] = "False"
                   /\ requests[f] = 1
    /\ outcome["test_api_connection"] \in GeneratorErrors
          => ConnectionMessage(outcome["test_api_connection"]) \in Range(output)
    /\ outcome["test_rag_scenario"] \in GeneratorErrors
          => "RAG scenario failed" \in Range(output)

\* the RAG scenario's request met a rate limit
C9_Witness ==
    /\ outcome["test_api_connection"] = "ok"
    /\ outcome["test_rag_scenario"] = "RateLimitError"
    /\ returned["test_rag_scenario"] = "False"
    /\ requests["test_rag_scenario"] = 1

\* C10: test_rag_scenario is invoked only after test_api_connection has
\* returned success; main exits with status 1 exactly when the credentials
\* are missing or the basic connection test fails; a failure of the RAG
\* scenario alone lets main run to its normal end.
C10_MainFlow ==
    /\ outcome["test_rag_scenario"] # "not_called"
          => returned["test_api_connection"] = "True"
    /\ exitStatus = "1"
          <=> (pc # "start"
               /\ (Missing \/ returned["test_api_connection"] = "False"))
    /\ pc = "exited" <=> exitStatus = "1"
    /\ returned["test_rag_scenario"] = "False"
          => /\ pc \in {"finishing", "done"}
             /\ exitStatus # "1"
    /\ pc = "done" <=> exitStatus = "0"

\* main has ended normally after a failed RAG scenario
C10_Witness ==
    /\ pc = "done"
    /\ exitStatus = "0"
    /\ returned["test_api_connection"] = "True"
    /\ returned["test_rag_scenario"] = "False"

============================================================================
